---- MODULE Spec2Model ----
(***************************************************************************)
(* Layout engine of figure_comp (coordinate_tracking.py): Pos leaves and   *)
(* PosArray trees, their bounding boxes, shift / rescale / stack_right /   *)
(* stack_below, and the merge_row / merge_col reductions.                  *)
(*                                                                         *)
(* Python floats are modelled as exact rationals <<n, d>> in lowest terms  *)
(* with d > 0, so every equality below is the exact-arithmetic statement   *)
(* that the float computation approximates to within rounding.             *)
(***************************************************************************)
EXTENDS Integers, Sequences, FiniteSets, TLC

\* ------------------------------------------------------------------ bounds
NReg == 3          \* caller-side variables that can hold a node
MaxLeaves == 3     \* leaves constructed in one behaviour
MaxOps == 2        \* direct shift_x / shift_y / rescale calls in one behaviour
MaxWidthSteps == 2 \* leaf widths on offer: DefaultSize * k for k in 1..MaxWidthSteps
MaxCtor == 2       \* direct Pos(...) / PosArray(...) calls in one behaviour of SpecConstruct
MaxEntries == 4    \* entries of a configuration below its top-level header, nested ones included
MaxTarget == 29    \* lengths asked of _get_new_dimensions as new_x / new_y: 1..MaxTarget
MaxBoxes == 4      \* boxes handed to FillFigures: 1..MaxBoxes
MaxBoxWidth == 3   \* box widths 1..MaxBoxWidth, figure widths 1..MaxBoxWidth + 1
MaxSketchLeaves == 5  \* leaves of a figure that is sketched

\* -------------------------------------------------------- program constants
DefaultSize == 50  \* Pos.__init__ default dx, dy
DefaultOrigin == 0 \* Pos.__init__ default x, y

\* ------------------------------------------------------ rational arithmetic
RECURSIVE GCD(_, _)
GCD(a, b) == IF b = 0 THEN a ELSE GCD(b, a % b)

Abs(n) == IF n < 0 THEN 0 - n ELSE n

Norm(n, d) ==
    LET s == IF d < 0 THEN 0 - 1 ELSE 1
        g == GCD(Abs(n), Abs(d))
    IN  <<(s * n) \div g, (s * d) \div g>>

R(n) == <<n, 1>>
RAdd(a, b) == Norm(a[1] * b[2] + b[1] * a[2], a[2] * b[2])
RSub(a, b) == Norm(a[1] * b[2] - b[1] * a[2], a[2] * b[2])
RMul(a, b) == Norm(a[1] * b[1], a[2] * b[2])
RDiv(a, b) == Norm(a[1] * b[2], a[2] * b[1])
RLt(a, b) == a[1] * b[2] < b[1] * a[2]
RLe(a, b) == a[1] * b[2] <= b[1] * a[2]
RMin(S) == CHOOSE m \in S : \A s \in S : RLe(m, s)
RMax(S) == CHOOSE m \in S : \A s \in S : RLe(s, m)

\* ------------------------------------------------------------------- nodes
\* A leaf (Pos) is [is_array |-> FALSE, path, x, y, dx, dy];
\* a tree (PosArray) is [is_array |-> TRUE, arr |-> <<node, ...>>].
Pos(path, dx, dy, x, y) ==
    [is_array |-> FALSE, path |-> path, x |-> x, y |-> y, dx |-> dx, dy |-> dy]

PosArray(arr) == [is_array |-> TRUE, arr |-> arr]

\* Pos.__init__(path, dx=dx, dy=dy).  `exists` is self.path.exists() and
\* image_size the <<x, y>> of the image stored there.  A path that is not a
\* file gets ImageBlank(path, dx, dy), whose np.ones((dy, dx, 4)) raises
\* ValueError for a negative dimension and for nothing else; no other
\* statement of __init__ looks at dx or dy, and __post_init__ is never called
\* (Pos is not a dataclass).
Pos_init_raises(exists, dx, dy) ==
    ~exists /\ (RLt(dx, R(0)) \/ RLt(dy, R(0)))

Pos_init(path, exists, image_size, dx, dy) ==
    IF exists
    THEN Pos(path, image_size[1], image_size[2], R(DefaultOrigin), R(DefaultOrigin))
    ELSE Pos(path, dx, dy, R(DefaultOrigin), R(DefaultOrigin))

\* Variant: a list without children is rejected.
PosArray_init_raises_if_empty(is_none, arr) == is_none \/ arr = <<>>

\* PosArray.__init__(arr): self.arr = arr if arr is not None else [].
\* is_none tells whether the argument is None; nothing is checked.
PosArray_init_raises(is_none, arr) == FALSE

PosArray_init(is_none, arr) == PosArray(IF is_none THEN <<>> ELSE arr)

RECURSIVE x_min(_)
x_min(p) ==
    IF p.is_array
    THEN RMin({x_min(p.arr[k]) : k \in 1..Len(p.arr)})
    ELSE p.x

RECURSIVE x_max(_)
x_max(p) ==
    IF p.is_array
    THEN RMax({x_max(p.arr[k]) : k \in 1..Len(p.arr)})
    ELSE RAdd(p.x, p.dx)

RECURSIVE y_min(_)
y_min(p) ==
    IF p.is_array
    THEN RMin({y_min(p.arr[k]) : k \in 1..Len(p.arr)})
    ELSE p.y

RECURSIVE y_max(_)
y_max(p) ==
    IF p.is_array
    THEN RMax({y_max(p.arr[k]) : k \in 1..Len(p.arr)})
    ELSE RAdd(p.y, p.dy)

x_range(p) == RSub(x_max(p), x_min(p))
y_range(p) == RSub(y_max(p), y_min(p))
aspect(p) == RDiv(x_range(p), y_range(p))

\* Variant: only the leaves directly below p are moved.
shift_x_top_level_only(p, x_move) ==
    IF p.is_array
    THEN PosArray([k \in 1..Len(p.arr) |->
                     IF p.arr[k].is_array THEN p.arr[k]
                     ELSE [p.arr[k] EXCEPT !.x = RAdd(p.arr[k].x, x_move)]])
    ELSE [p EXCEPT !.x = RAdd(p.x, x_move)]

RECURSIVE shift_x(_, _)
shift_x(p, x_move) ==
    IF p.is_array
    THEN PosArray([k \in 1..Len(p.arr) |-> shift_x(p.arr[k], x_move)])
    ELSE [p EXCEPT !.x = RAdd(p.x, x_move)]

RECURSIVE shift_y(_, _)
shift_y(p, y_move) ==
    IF p.is_array
    THEN PosArray([k \in 1..Len(p.arr) |-> shift_y(p.arr[k], y_move)])
    ELSE [p EXCEPT !.y = RAdd(p.y, y_move)]

\* ----------------------------------------------- addressing leaves of a tree
\* Index paths of the leaves below p, in the order the nested for-loops of
\* rescale_pos_arr (and populate_in_array, plot_pos_array) visit them.
RECURSIVE Concat(_)
Concat(ss) == IF ss = <<>> THEN <<>> ELSE Head(ss) \o Concat(Tail(ss))

RECURSIVE LeafPaths(_)
LeafPaths(p) ==
    IF p.is_array
    THEN Concat([k \in 1..Len(p.arr) |->
                   LET sub == LeafPaths(p.arr[k])
                   IN  [m \in 1..Len(sub) |-> <<k>> \o sub[m]]])
    ELSE << <<>> >>

RECURSIVE GetAt(_, _)
GetAt(p, ip) == IF ip = <<>> THEN p ELSE GetAt(p.arr[Head(ip)], Tail(ip))

RECURSIVE SetAt(_, _, _)
SetAt(p, ip, q) ==
    IF ip = <<>> THEN q
    ELSE [p EXCEPT !.arr[Head(ip)] = SetAt(p.arr[Head(ip)], Tail(ip), q)]

Leaves(p) == LET ips == LeafPaths(p) IN [m \in 1..Len(ips) |-> GetAt(p, ips[m])]

\* ---------------------------------------------------------------- rescale
\* Variant: only the width is scaled.
Pos_rescale_width_only(p, scale) ==
    [p EXCEPT !.dx = RMul(p.dx, scale)]

\* Variant: the scaled size is truncated to whole pixels.
Pos_rescale_truncated(p, scale) ==
    [p EXCEPT !.dx = R(RMul(p.dx, scale)[1] \div RMul(p.dx, scale)[2]),
              !.dy = R(RMul(p.dy, scale)[1] \div RMul(p.dy, scale)[2])]

Pos_rescale(p, scale) ==
    [p EXCEPT !.dx = RMul(p.dx, scale), !.dy = RMul(p.dy, scale)]

\* Variant: the anchor is the minimum of the tree that directly contains the
\* leaf instead of the minimum of the tree rescale was called on.
rescale_leaf_own_anchor(self, ip, scale) ==
    LET p == GetAt(self, ip)
        owner == GetAt(self, SubSeq(ip, 1, Len(ip) - 1))
        px == RAdd(x_min(owner), RMul(RSub(x_min(p), x_min(owner)), scale))
        py == RAdd(y_min(owner), RMul(RSub(y_min(p), y_min(owner)), scale))
    IN  SetAt(self, ip, [p EXCEPT !.x = px, !.y = py,
                                  !.dx = RMul(p.dx, scale), !.dy = RMul(p.dy, scale)])

\* One iteration of the loop body of rescale_pos_arr for the leaf at ip.
\* `self` is the tree rescale was called on, in its current, partly updated
\* state: self.x_min and self.y_min are read again for every leaf.
rescale_leaf(self, ip, scale) ==
    LET p == GetAt(self, ip)
        from_scale_point_x == RSub(x_min(p), x_min(self))
        from_scale_point_y == RSub(y_min(p), y_min(self))
        px == RAdd(x_min(self), RMul(from_scale_point_x, scale))
        py == RAdd(y_min(self), RMul(from_scale_point_y, scale))
    IN  SetAt(self, ip, Pos_rescale([p EXCEPT !.x = px, !.y = py], scale))

RECURSIVE rescale_pos_arr(_, _, _)
rescale_pos_arr(self, ips, scale) ==
    IF ips = <<>> THEN self
    ELSE rescale_pos_arr(rescale_leaf(self, Head(ips), scale), Tail(ips), scale)

\* Variant: every leaf is resized where it stands; the starting points are
\* not rescaled.
RECURSIVE PosArray_rescale_sizes_only(_, _)
PosArray_rescale_sizes_only(self, scale) ==
    IF self.is_array
    THEN PosArray([k \in 1..Len(self.arr) |->
                     PosArray_rescale_sizes_only(self.arr[k], scale)])
    ELSE Pos_rescale(self, scale)

PosArray_rescale(self, scale) == rescale_pos_arr(self, LeafPaths(self), scale)

rescale(p, scale) ==
    IF p.is_array THEN PosArray_rescale(p, scale) ELSE Pos_rescale(p, scale)

\* ----------------------------------------------------------------- append
\* isinstance(other, Pos) holds for a PosArray as well (PosArray subclasses
\* Pos), so PosArray.append always takes its first branch.
\* Variant: a PosArray receiver is wrapped like a Pos receiver.
append_wrapping(self, other) == PosArray(<<self, other>>)

\* Variant: other is put in front of the children.
append_in_front(self, other) ==
    IF self.is_array
    THEN PosArray(<<other>> \o self.arr)
    ELSE PosArray(<<other, self>>)

append(self, other) ==
    IF self.is_array
    THEN PosArray(Append(self.arr, other))
    ELSE PosArray(<<self, other>>)

\* ------------------------------------------------------------------ stacking
\* Variant: the offset ignores where other starts.
stack_right_other_offset_from_zero(self, other) ==
    LET x_offset == x_max(self)
        scale_factor == RDiv(y_range(self), y_range(other))
    IN  rescale(shift_x(other, x_offset), scale_factor)

\* What the node `other` has become once stack_right has shifted and rescaled it.
stack_right_other(self, other) ==
    LET x_offset == RSub(x_max(self), x_min(other))
        scale_factor == RDiv(y_range(self), y_range(other))
    IN  rescale(shift_x(other, x_offset), scale_factor)

\* scale_factor is computed before other is touched; a zero y_range raises
\* ZeroDivisionError there.
stack_right_raises(self, other) == y_range(other) = R(0)

\* Variant: other is shifted before the scale factor is computed.
stack_right_other_shifted_on_raise(self, other) ==
    shift_x(other, RSub(x_max(self), x_min(other)))

\* What the node `other` is when stack_right has raised: none of the two
\* statements that mutate it has run.
stack_right_other_on_raise(self, other) == other

stack_right(self, other) == append(self, stack_right_other(self, other))

\* Variant: the scale is taken from the vertical extents, as in stack_right.
stack_below_other_vertical_scale(self, other) ==
    LET y_offset == RSub(y_max(self), y_min(other))
        scale_factor == RDiv(y_range(self), y_range(other))
    IN  rescale(shift_y(other, y_offset), scale_factor)

\* Variant: the offset aligns the top edges instead of stacking under self.
stack_below_other_top_aligned(self, other) ==
    LET y_offset == RSub(y_min(self), y_min(other))
        scale_factor == RDiv(x_range(self), x_range(other))
    IN  rescale(shift_y(other, y_offset), scale_factor)

\* Variant: the ratio is inverted.
stack_below_other_inverse_scale(self, other) ==
    LET y_offset == RSub(y_max(self), y_min(other))
        scale_factor == RDiv(x_range(other), x_range(self))
    IN  rescale(shift_y(other, y_offset), scale_factor)

stack_below_other(self, other) ==
    LET y_offset == RSub(y_max(self), y_min(other))
        scale_factor == RDiv(x_range(self), x_range(other))
    IN  rescale(shift_y(other, y_offset), scale_factor)

stack_below_raises(self, other) == x_range(other) = R(0)

stack_below_other_on_raise(self, other) == other

stack_below(self, other) == append(self, stack_below_other(self, other))

\* functools.reduce(merge_func, pos_list) as a left fold.  The fold state is
\*   acc   the accumulated node,
\*   seen  the list elements already passed to merge_func, as mutated,
\*   rest  the elements not yet reached,
\*   err   whether merge_func raised (the fold stops there).
merge_func(dir, x, y) == IF dir = "row" THEN stack_right(x, y) ELSE stack_below(x, y)
merge_func_other(dir, x, y) ==
    IF dir = "row" THEN stack_right_other(x, y) ELSE stack_below_other(x, y)
merge_func_raises(dir, x, y) ==
    IF dir = "row" THEN stack_right_raises(x, y) ELSE stack_below_raises(x, y)
merge_func_other_on_raise(dir, x, y) ==
    IF dir = "row" THEN stack_right_other_on_raise(x, y)
    ELSE stack_below_other_on_raise(x, y)

RECURSIVE reduce(_, _)
reduce(dir, st) ==
    IF st.rest = <<>> \/ st.err THEN st
    ELSE LET y == Head(st.rest)
         IN  IF merge_func_raises(dir, st.acc, y)
             THEN [st EXCEPT !.err = TRUE,
                             !.rest[1] = merge_func_other_on_raise(dir, st.acc, y)]
             ELSE reduce(dir, [acc  |-> merge_func(dir, st.acc, y),
                               seen |-> Append(st.seen, merge_func_other(dir, st.acc, y)),
                               rest |-> Tail(st.rest),
                               err  |-> FALSE])

\* Variant: the reduction starts at the second element of the list.
merge_dropping_head(dir, pos_list) ==
    reduce(dir, [acc |-> Head(Tail(pos_list)), seen |-> <<>>,
                 rest |-> Tail(Tail(pos_list)), err |-> FALSE])

merge(dir, pos_list) ==
    reduce(dir, [acc |-> Head(pos_list), seen |-> <<>>,
                 rest |-> Tail(pos_list), err |-> FALSE])

merge_row(pos_list) == merge("row", pos_list)
merge_col(pos_list) == merge("col", pos_list)

\* ----------------------------------------------------------------- populate
\* int(v) of Python for a rational v: truncation toward zero.
int(v) == IF v[1] >= 0 THEN v[1] \div v[2] ELSE 0 - ((0 - v[1]) \div v[2])

\* int(getattr(p, attr) + 0.5)
normalise(v) == R(int(RAdd(v, <<1, 2>>)))

\* _normalise_values: every leaf's x, y, dx and dy, each on its own.
RECURSIVE normalise_values(_)
normalise_values(p) ==
    IF p.is_array
    THEN PosArray([k \in 1..Len(p.arr) |-> normalise_values(p.arr[k])])
    ELSE [p EXCEPT !.x = normalise(p.x), !.y = normalise(p.y),
                   !.dx = normalise(p.dx), !.dy = normalise(p.dy)]

set_width_raises(self, new_width) == x_range(self) = R(0)

set_width(self, new_width) ==
    LET current_width == x_range(self)
        scale_factor == RDiv(new_width, current_width)
    IN  rescale(self, scale_factor)

\* Variant: the check looks at the coordinates before they are normalised.
origin_raises_before_normalising(before, after) ==
    x_min(before) # R(0) \/ y_min(before) # R(0)

\* The origin check of populate; `before` is the tree populate was called on,
\* `after` the tree once set_width and _normalise_values have run, which is
\* the one the check reads.
origin_raises(before, after) ==
    x_min(after) # R(0) \/ y_min(after) # R(0)

\* The first two dimensions of image.data after image.resize(new_size), with
\* new_size = (p.y_range, p.x_range).  Image.resize hands new_size to
\* transform.resize as (rows, columns); ImageBlank.resize reads new_size[0] as
\* x_size and new_size[1] as y_size and builds np.ones((y_size, x_size, 4)).
resize(is_loaded, new_size) ==
    IF is_loaded THEN new_size ELSE <<new_size[2], new_size[1]>>

\* The length of the slice lo:hi of an axis of length n, for 0 <= lo.
SliceLen(lo, hi, n) ==
    LET a == IF lo < n THEN lo ELSE n
        b == IF hi < n THEN hi ELSE n
    IN  IF b > a THEN b - a ELSE 0

\* numpy accepts im[slice] = data when every dimension of data equals that of
\* the slice or is 1.
Broadcasts(data, slice) ==
    \A k \in 1..2 : data[k] = slice[k] \/ data[k] = 1

\* The write populate_in_array makes for leaf p into a buffer of shape
\* im_shape: the shape of the resized image data and of the buffer slice.
Write(p, im_shape, is_loaded) ==
    LET data == resize(is_loaded, <<y_range(p)[1], x_range(p)[1]>>)
        slice == <<SliceLen(y_min(p)[1], y_max(p)[1], im_shape[1]),
                   SliceLen(x_min(p)[1], x_max(p)[1], im_shape[2])>>
    IN  [path |-> p.path, data |-> data, slice |-> slice, p |-> p,
         ok |-> Broadcasts(data, slice)]

\* The writes of populate_in_array in traversal order, up to and including
\* the first one that raises.
populate_in_array(self, im_shape, files) ==
    LET ps == Leaves(self)
        ws == [m \in 1..Len(ps) |-> Write(ps[m], im_shape, ps[m].path \in files)]
        bad == {m \in 1..Len(ws) : ~ws[m].ok}
        n == IF bad = {} THEN Len(ws) ELSE CHOOSE m \in bad : \A k \in bad : m <= k
    IN  SubSeq(ws, 1, n)

NoImage == [err |-> "none", saved |-> FALSE, shape |-> <<0, 0>>, writes |-> <<>>, tree |-> <<>>]

\* populate(save_path, final_width); has_width is `final_width is not None`.
\* The result holds the tree as populate leaves it, the exception if any, the
\* shape of im_arr, the writes made and whether io.imsave was reached.
populate(self, has_width, final_width, files) ==
    IF has_width /\ set_width_raises(self, final_width)
    THEN [NoImage EXCEPT !.err = "ZeroDivisionError", !.tree = self]
    ELSE LET scaled == IF has_width THEN set_width(self, final_width) ELSE self
             after == normalise_values(scaled)
             im_shape == <<y_range(after)[1], x_range(after)[1]>>
             writes == populate_in_array(after, im_shape, files)
             failed == writes # <<>> /\ ~writes[Len(writes)].ok
         IN  IF origin_raises(self, after)
             THEN [NoImage EXCEPT !.err = "origin", !.tree = after]
             ELSE [err |-> IF failed THEN "shape" ELSE "none",
                   saved |-> ~failed,
                   shape |-> im_shape,
                   writes |-> writes,
                   tree |-> after]

\* ------------------------------------------------------------------- state
VARIABLES
    reg,      \* the nodes the caller holds: register -> node
    nleaves,  \* leaves constructed so far; the next leaf's path is nleaves + 1
    nops,     \* direct shift / rescale calls, or direct PosArray(...) calls, so far
    last,     \* the call that produced this state, with its operands before it
    x_size,   \* the width the caller gives to the leaves of this figure
    loaded,   \* the paths of the leaves whose image was read from a file
    im,       \* what the last populate call has produced
    sketched, \* what the last sketch call has drawn
    config,   \* the configuration handed to parse_yaml
    parsed,   \* what parse_yaml has returned or raised
    new_dims, \* the last _get_new_dimensions call: its arguments and its result
    figures   \* the FillFigures object constructed last

vars == <<reg, nleaves, nops, last, x_size, loaded, im,
          sketched, config, parsed, new_dims, figures>>

\* The state of the parts of the package that the layout calls do not touch.
elsewhere == <<sketched, config, parsed, new_dims, figures>>

\* The state of the layout engine.
layout == <<reg, nleaves, nops, last, x_size, loaded, im>>

NotCalled == [called |-> FALSE]

Regs == 1..NReg
Widths == {R(DefaultSize * k) : k \in 1..MaxWidthSteps}
y_size == R(DefaultSize)
Shifts == {R(DefaultSize \div 2)}
Factors == {<<1, 2>>, <<2, 1>>}
NonPositiveFactors == {R(0), R(0 - 1)}
AnySizes == {R(0 - DefaultSize), R(0), R(DefaultSize)}

\* last.pre holds the operands as they were before the call.  For a rescale
\* (shift_x, shift_y) that directly follows rescale (shift_x, shift_y) calls on
\* the same node, last.run lists the arguments of those calls and of this one,
\* and last.base is the node before the first of them.
\* last.args holds the arguments of a constructor call.
NoCall == [op |-> "none", rs |-> <<>>, f |-> R(0), err |-> FALSE,
           pre |-> <<>>, run |-> <<>>, base |-> <<>>, args |-> <<>>]

Call(op, rs, f, err) ==
    LET tracked == op \in {"rescale", "shift_x", "shift_y"}
        follows == tracked /\ last.op = op /\ last.rs = rs
    IN  [op |-> op, rs |-> rs, f |-> f, err |-> err,
         pre |-> [k \in {rs[m] : m \in 1..Len(rs)} |-> reg[k]],
         run |-> IF ~tracked THEN <<>>
                 ELSE IF follows THEN Append(last.run, f) ELSE <<f>>,
         base |-> IF ~tracked THEN <<>>
                  ELSE IF follows THEN last.base ELSE reg[rs[1]],
         args |-> <<>>]

Put(i, node) == [k \in DOMAIN reg \cup {i} |-> IF k = i THEN node ELSE reg[k]]
Drop(r, S) == [k \in DOMAIN r \ S |-> r[k]]

\* The caller fills registers from 1 upwards and absorbs higher registers into
\* lower ones, so the occupied registers are always 1..Top.
Top == Cardinality(DOMAIN reg)

\* The pos_list of a merge: every node the caller holds, in register order.
RegList == [k \in 1..Top |-> k]

Init ==
    /\ reg = <<>>
    /\ nleaves = 0
    /\ nops = 0
    /\ last = NoCall
    /\ x_size \in Widths
    /\ loaded = {}
    /\ im = NoImage
    /\ sketched = NotCalled
    /\ config = NotCalled
    /\ parsed = NotCalled
    /\ new_dims = NotCalled
    /\ figures = NotCalled

Step(call) == last' = call

\* The caller makes its direct shift_x / shift_y / rescale calls one after the
\* other, on the newest node it holds, at one point of the construction.
CanTransform ==
    /\ nops < MaxOps
    /\ nops = 0 \/ last.op \in {"shift_x", "shift_y", "rescale"}

\* Pos(path, dx=x_size, dy=y_size) for a path that is not a file: the leaf
\* keeps the given size and sits at the default origin.  All leaves of one
\* figure are constructed with one size, as the test helper create_pos_array
\* does; other sizes come from rescale.
NewPos ==
    /\ nleaves < MaxLeaves
    /\ Top < NReg
    /\ reg' = Put(Top + 1, Pos(nleaves + 1, x_size, y_size,
                               R(DefaultOrigin), R(DefaultOrigin)))
    /\ Step([NoCall EXCEPT !.op = "Pos", !.rs = <<Top + 1>>])
    /\ nleaves' = nleaves + 1
    /\ UNCHANGED <<nops, x_size, loaded, im, elsewhere>>

ShiftX(i, x_move) ==
    /\ i = Top /\ i > 0
    /\ CanTransform
    /\ reg' = Put(i, shift_x(reg[i], x_move))
    /\ nops' = nops + 1
    /\ Step(Call("shift_x", <<i>>, x_move, FALSE))
    /\ UNCHANGED <<nleaves, x_size, loaded, im, elsewhere>>

ShiftY(i, y_move) ==
    /\ i = Top /\ i > 0
    /\ CanTransform
    /\ reg' = Put(i, shift_y(reg[i], y_move))
    /\ nops' = nops + 1
    /\ Step(Call("shift_y", <<i>>, y_move, FALSE))
    /\ UNCHANGED <<nleaves, x_size, loaded, im, elsewhere>>

Rescale(i, scale) ==
    /\ i = Top /\ i > 0
    /\ CanTransform
    /\ reg' = Put(i, rescale(reg[i], scale))
    /\ nops' = nops + 1
    /\ Step(Call("rescale", <<i>>, scale, FALSE))
    /\ UNCHANGED <<nleaves, x_size, loaded, im, elsewhere>>

\* reg[i] = reg[i].stack_right(reg[j]) for the two newest nodes; reg[j] is
\* absorbed.
StackRight(i, j) ==
    /\ j = Top /\ i = j - 1 /\ i > 0
    /\ IF stack_right_raises(reg[i], reg[j])
       THEN /\ reg' = Put(j, stack_right_other_on_raise(reg[i], reg[j]))
            /\ Step(Call("stack_right", <<i, j>>, R(0), TRUE))
       ELSE /\ reg' = Drop(Put(i, stack_right(reg[i], reg[j])), {j})
            /\ Step(Call("stack_right", <<i, j>>, R(0), FALSE))
    /\ UNCHANGED <<nleaves, nops, x_size, loaded, im, elsewhere>>

StackBelow(i, j) ==
    /\ j = Top /\ i = j - 1 /\ i > 0
    /\ IF stack_below_raises(reg[i], reg[j])
       THEN /\ reg' = Put(j, stack_below_other_on_raise(reg[i], reg[j]))
            /\ Step(Call("stack_below", <<i, j>>, R(0), TRUE))
       ELSE /\ reg' = Drop(Put(i, stack_below(reg[i], reg[j])), {j})
            /\ Step(Call("stack_below", <<i, j>>, R(0), FALSE))
    /\ UNCHANGED <<nleaves, nops, x_size, loaded, im, elsewhere>>

\* reg[1] = merge_row / merge_col([reg[1], ..., reg[Top]]) for a list of three
\* or more nodes (the merge of a two-element list is the single stack_right /
\* stack_below call that StackRight / StackBelow make).  When merge_func
\* raises, a PosArray at the head of the list has been extended in place by
\* the elements already absorbed, while a Pos at the head is untouched and
\* the elements already passed stay with the caller as they were mutated;
\* the elements not reached move down to the free registers.
Merge(dir) ==
    /\ Top > 2
    /\ LET st == merge(dir, [k \in 1..Top |-> reg[k]])
           kept == IF st.err /\ ~reg[1].is_array THEN <<reg[1]>> \o st.seen \o st.rest
                   ELSE <<st.acc>> \o st.rest
       IN  /\ reg' = kept
           /\ Step(Call(IF dir = "row" THEN "merge_row" ELSE "merge_col",
                        RegList, R(0), st.err))
    /\ UNCHANGED <<nleaves, nops, x_size, loaded, im, elsewhere>>

MergeRow == Merge("row")
MergeCol == Merge("col")

Next ==
    \/ NewPos
    \/ \E i \in Regs, d \in Shifts : ShiftX(i, d)
    \/ \E i \in Regs, d \in Shifts : ShiftY(i, d)
    \/ \E i \in Regs, f \in Factors : Rescale(i, f)
    \/ \E i, j \in Regs : StackRight(i, j)
    \/ \E i, j \in Regs : StackBelow(i, j)
    \/ MergeRow
    \/ MergeCol

Spec == Init /\ [][Next]_vars

\* The same program with rescale factors that are not positive, which no
\* check in Pos.rescale / PosArray.rescale excludes.
NextAnyFactor ==
    \/ Next
    \/ \E i \in Regs, f \in NonPositiveFactors : Rescale(i, f)

SpecAnyFactor == Init /\ [][NextAnyFactor]_vars

\* The same program with rescale(0), which collapses a node to zero extents.
NextZeroFactor ==
    \/ Next
    \/ \E i \in Regs : Rescale(i, R(0))

SpecZeroFactor == Init /\ [][NextZeroFactor]_vars

\* ------------------------------------------------------------ constructors
\* Pos(path, dx=dx, dy=dy) with any sizes, for a path that names an image file
\* of x_size by y_size pixels (exists) or no file.
NewPosOf(exists, dx, dy) ==
    /\ nleaves < MaxLeaves
    /\ Top < NReg
    /\ IF Pos_init_raises(exists, dx, dy)
       THEN /\ UNCHANGED <<reg, loaded>>
            /\ Step([NoCall EXCEPT !.op = "Pos", !.err = TRUE,
                                   !.args = [exists |-> exists, dx |-> dx, dy |-> dy]])
       ELSE /\ reg' = Put(Top + 1, Pos_init(nleaves + 1, exists, <<x_size, y_size>>, dx, dy))
            /\ loaded' = IF exists THEN loaded \cup {nleaves + 1} ELSE loaded
            /\ Step([NoCall EXCEPT !.op = "Pos", !.rs = <<Top + 1>>,
                                   !.args = [exists |-> exists, dx |-> dx, dy |-> dy]])
    /\ nleaves' = nleaves + 1
    /\ UNCHANGED <<nops, x_size, im, elsewhere>>

\* PosArray(arr) called directly: arr is None, or the list of the n newest
\* nodes the caller holds (n = 0 is the empty list).
NewPosArray(is_none, n) ==
    /\ nleaves + nops < MaxCtor
    /\ n \in 0..Top
    /\ is_none => n = 0
    /\ Top - n < NReg
    /\ LET at == Top - n + 1
           arr == [m \in 1..n |-> reg[Top - n + m]]
       IN  /\ IF PosArray_init_raises(is_none, arr)
              THEN /\ reg' = reg
                   /\ Step([NoCall EXCEPT !.op = "PosArray", !.err = TRUE,
                                          !.args = [is_none |-> is_none, n |-> n]])
              ELSE /\ reg' = Drop(Put(at, PosArray_init(is_none, arr)), (at + 1)..Top)
                   /\ Step([NoCall EXCEPT !.op = "PosArray", !.rs = <<at>>,
                                          !.args = [is_none |-> is_none, n |-> n]])
    /\ nops' = nops + 1
    /\ UNCHANGED <<nleaves, x_size, loaded, im, elsewhere>>

ConstructPos(exists, dx, dy) == nleaves + nops < MaxCtor /\ NewPosOf(exists, dx, dy)

NextConstruct ==
    \/ \E exists \in BOOLEAN, dx, dy \in AnySizes : ConstructPos(exists, dx, dy)
    \/ \E is_none \in BOOLEAN, n \in 0..NReg : NewPosArray(is_none, n)

SpecConstruct == Init /\ [][NextConstruct]_vars

\* The layout program with trees that the caller also makes directly from one
\* node, PosArray([p]), as the test helper create_pos_array does.
NextWithArrays ==
    \/ Next
    \/ NewPosArray(FALSE, 1)

SpecWithArrays == Init /\ [][NextWithArrays]_vars

\* ------------------------------------------------------------------ populate
FinalWidths == {R(3 * DefaultSize), R(3 * DefaultSize + 1)}
OriginShifts == {<<1, 4>>, R(DefaultSize \div 2)}

\* reg[i].populate(save_path, final_width) on the newest node, a PosArray;
\* final_width is None when has_width is FALSE.
\* set_width and _normalise_values change the tree in place before anything
\* can raise, so the caller's node is the normalised tree in every outcome
\* but a ZeroDivisionError.
Populate(i, has_width, final_width) ==
    /\ last.op # "populate"
    /\ i = Top /\ i > 0
    /\ reg[i].is_array
    /\ LET out == populate(reg[i], has_width, final_width, loaded)
       IN  /\ im' = out
           /\ reg' = Put(i, im'.tree)
           /\ Step([Call("populate", <<i>>, final_width, im'.err # "none")
                      EXCEPT !.args = [has_width |-> has_width]])
    /\ UNCHANGED <<nleaves, nops, x_size, loaded, elsewhere>>

\* The caller builds one figure, either from image files of x_size by y_size
\* pixels or from paths that are not files, may move the finished figure once,
\* and populates it last.
Building == last.op # "populate"

FigureNewPos == Building /\ loaded = {} /\ NewPos

FigureNewPosFile ==
    Building /\ loaded = 1..nleaves /\ NewPosOf(TRUE, R(DefaultSize), R(DefaultSize))

FigureShiftX(i, d) == Building /\ Top = 1 /\ nops = 0 /\ ShiftX(i, d)
FigureShiftY(i, d) == Building /\ Top = 1 /\ nops = 0 /\ ShiftY(i, d)
FigureStackRight(i, j) == Building /\ StackRight(i, j)
FigureStackBelow(i, j) == Building /\ StackBelow(i, j)
FigureMergeRow == Building /\ MergeRow
FigureMergeCol == Building /\ MergeCol

NextPopulate ==
    \/ FigureNewPos
    \/ FigureNewPosFile
    \/ \E i \in Regs, d \in OriginShifts : FigureShiftX(i, d)
    \/ \E i \in Regs, d \in OriginShifts : FigureShiftY(i, d)
    \/ \E i, j \in Regs : FigureStackRight(i, j)
    \/ \E i, j \in Regs : FigureStackBelow(i, j)
    \/ FigureMergeRow
    \/ FigureMergeCol
    \/ \E i \in Regs, w \in FinalWidths : Populate(i, TRUE, w)
    \/ \E i \in Regs : Populate(i, FALSE, R(0))

SpecPopulate == Init /\ [][NextPopulate]_vars

\* ------------------------------------------------------- _normalise_values
\* Offsets the caller may move a figure by, to either side.
SignedShifts == {<<0 - 5, 4>>, <<0 - 1, 2>>, <<1, 2>>, <<5, 4>>}

\* reg[i]._normalise_values() on the newest node, a PosArray.
NormaliseValues(i) ==
    /\ i = Top /\ i > 0
    /\ reg[i].is_array
    /\ nops < MaxOps
    /\ reg' = Put(i, normalise_values(reg[i]))
    /\ nops' = nops + 1
    /\ Step(Call("_normalise_values", <<i>>, R(0), FALSE))
    /\ UNCHANGED <<nleaves, x_size, loaded, im, elsewhere>>

\* The figure program with shifts to either side, followed by
\* _normalise_values.
NextNormalise ==
    \/ FigureNewPos
    \/ \E i \in Regs, d \in SignedShifts : FigureShiftX(i, d)
    \/ \E i \in Regs, d \in SignedShifts : FigureShiftY(i, d)
    \/ \E i, j \in Regs : FigureStackRight(i, j)
    \/ \E i, j \in Regs : FigureStackBelow(i, j)
    \/ FigureMergeRow
    \/ FigureMergeCol
    \/ \E i \in Regs : NormaliseValues(i)

SpecNormalise == Init /\ [][NextNormalise]_vars

\* ---------------------------------------------------------- structure_parse
\* A configuration as yaml.load returns it.  An entry of a branch is
\*   [kind |-> "path", path]                a path string,
\*   [kind |-> "complex", path, override]   a one-key dict {path: override},
\*   [kind |-> "branch", header, entries]   a nested {Row: [...]} or {Col: [...]}.
\* The top level is a branch with its Options, given as the list of one-key
\* dicts that the documented format yields (is_list) or as one dict.
Headers == {"Row", "Col"}
Paths == {"/path/one", "/path/two"}
Overrides == {[text |-> "A"], [size |-> 10]}
LeafEntries ==
    {[kind |-> "path", path |-> p] : p \in Paths}
      \cup {[kind |-> "complex", path |-> "/path/three", override |-> o] : o \in Overrides}

RECURSIVE EntryListsOfSize(_)
EntriesOfSize(n) ==
    IF n = 1 THEN LeafEntries
    ELSE {[kind |-> "branch", header |-> h, entries |-> es] :
            h \in Headers, es \in EntryListsOfSize(n - 1)}

\* The non-empty entry lists that hold n entries in all, nested ones included.
EntryListsOfSize(n) ==
    UNION {{<<e>> \o r : e \in EntriesOfSize(k),
                         r \in (IF k = n THEN {<<>>} ELSE EntryListsOfSize(n - k))}
             : k \in 1..n}

DefaultFormat == "{index+1}."
DefaultLabelSize == 30
NoOptions == [k \in {} |-> 0]
OptionSets == {NoOptions, [default_label |-> "({index})", size |-> 18]}

Configs ==
    {[is_list |-> l, header |-> h, entries |-> es, options |-> o] :
        l \in BOOLEAN, h \in Headers, o \in OptionSets,
        es \in UNION {EntryListsOfSize(n) : n \in 1..MaxEntries}}

\* eval(f'f"{format_str}"') for the two templates on offer, as the pieces of
\* the resulting text.
Format(format_str, index) ==
    IF format_str = DefaultFormat THEN <<index + 1, ".">> ELSE <<"(", index, ")">>

\* generate_default_label_text(**label_defaults): the generator before its
\* first next().
generate_default_label_text(label_defaults) ==
    [format_str |-> IF "format_str" \in DOMAIN label_defaults
                    THEN label_defaults.format_str ELSE DefaultFormat,
     size_default |-> IF "size_default" \in DOMAIN label_defaults
                      THEN label_defaults.size_default ELSE DefaultLabelSize,
     index |-> 0]

\* _rename_dict_keys(dict_, old_key, new_key)
rename_dict_keys(dict_, old_key, new_key) ==
    IF old_key \notin DOMAIN dict_ THEN dict_
    ELSE [k \in (DOMAIN dict_ \ {old_key}) \cup {new_key} |->
            IF k = new_key THEN dict_[old_key] ELSE dict_[k]]

get_defaults(structure_dict) ==
    generate_default_label_text(
        rename_dict_keys(rename_dict_keys(structure_dict.options,
                                          "default_label", "format_str"),
                         "size", "size_default"))

\* The generator after a next(): index += 1 runs when it is resumed.
next(gen) == [gen EXCEPT !.index = gen.index + 1]

\* label_func(**label_override) of the label function that next() yields.
label_func(gen, label_override) ==
    [text |-> IF "text" \in DOMAIN label_override THEN label_override.text
              ELSE Format(gen.format_str, gen.index),
     size |-> IF "size" \in DOMAIN label_override THEN label_override.size
              ELSE gen.size_default]

\* Pos(path, label) for a path that is not a file.
LabelledPos(path, label) ==
    [is_array |-> FALSE, path |-> path, label |-> label,
     x |-> R(DefaultOrigin), y |-> R(DefaultOrigin),
     dx |-> R(DefaultSize), dy |-> R(DefaultSize)]

\* _parse_path(leaf, default_labels): the Pos and the generator afterwards.
parse_path(leaf, default_labels) ==
    [value |-> LabelledPos(leaf.path, label_func(default_labels, NoOptions)),
     gen |-> next(default_labels)]

\* Variant: an entry with overrides takes no label function from the generator.
parse_complex_path_keeping_index(leaf, default_labels) ==
    [value |-> LabelledPos(leaf.path, label_func(default_labels, leaf.override)),
     gen |-> default_labels]

parse_complex_path(leaf, default_labels) ==
    [value |-> LabelledPos(leaf.path, label_func(default_labels, leaf.override)),
     gen |-> next(default_labels)]

is_subbranch(leaf) == leaf.kind = "branch"

\* header = "Row" if "Row" in branch else "Col"
header_of(branch) == IF branch.header = "Row" THEN "Row" ELSE "Col"

\* _read_branch(branch, dry, default_labels).  The generator is one object
\* shared by all levels; it is threaded through the loop as gen, and struct
\* is the list built so far.
RECURSIVE read_branch(_, _, _)
RECURSIVE read_entries(_, _, _, _)
read_entries(entries, dry, gen, struct) ==
    IF entries = <<>> THEN [value |-> struct, gen |-> gen]
    ELSE LET entry == Head(entries)
             r == IF entry.kind = "path" THEN parse_path(entry, gen)
                  ELSE IF is_subbranch(entry) THEN read_branch(entry, dry, gen)
                  ELSE parse_complex_path(entry, gen)
         IN  read_entries(Tail(entries), dry, r.gen, Append(struct, r.value))

read_branch(branch, dry, gen) ==
    LET header == header_of(branch)
        r == read_entries(branch.entries, dry, gen, <<>>)
    IN  [value |-> IF dry THEN <<header, r.value>>
                   ELSE [container |-> header, cont |-> r.value],
         gen |-> r.gen]

\* flattened_dict is bound only when structure_dict is a list; for a dict the
\* next statement raises UnboundLocalError.
parse_yaml_raises(structure_dict) == ~structure_dict.is_list

parse_yaml(structure_dict, dry) ==
    IF parse_yaml_raises(structure_dict)
    THEN [called |-> TRUE, dry |-> dry, err |-> TRUE, value |-> <<>>, index |-> 0]
    ELSE LET default_labels == get_defaults(structure_dict)
             r == read_branch(structure_dict, dry, default_labels)
         IN  [called |-> TRUE, dry |-> dry, err |-> FALSE, value |-> r.value,
              index |-> r.gen.index]

\* The caller loads one configuration and parses it once.
InitParse ==
    /\ reg = <<>> /\ nleaves = 0 /\ nops = 0 /\ last = NoCall
    /\ x_size = R(DefaultSize) /\ loaded = {} /\ im = NoImage
    /\ sketched = NotCalled /\ new_dims = NotCalled /\ figures = NotCalled
    /\ config \in Configs
    /\ parsed = NotCalled

ParseYaml(dry) ==
    /\ ~parsed.called
    /\ parsed' = parse_yaml(config, dry)
    /\ UNCHANGED <<layout, sketched, config, new_dims, figures>>

NextParse == \E dry \in BOOLEAN : ParseYaml(dry)

SpecParse == InitParse /\ [][NextParse]_vars

\* ------------------------------------------------------- IEEE-754 binary64
\* _get_new_dimensions rounds at exact halves, where the rounding error of
\* the float operations decides the result, so its floats are modelled bit
\* for bit.  A positive double is [sig, exp]: sig = <<a, b, c>> holds the
\* 53-bit significand a * 2^36 + b * 2^18 + c, with 2^16 <= a < 2^17 and
\* b, c < 2^18, and exp is the weight 2^exp of its last bit.
Precision == 53
Limb == 262144     \* 2^18
TopLimb == 131072  \* 2^17

RECURSIVE Pow2(_)
Pow2(k) == IF k = 0 THEN 1 ELSE 2 * Pow2(k - 1)

\* The significand plus one in the last place.
Increment(sig, exp) ==
    IF sig[3] + 1 < Limb THEN [sig |-> <<sig[1], sig[2], sig[3] + 1>>, exp |-> exp]
    ELSE IF sig[2] + 1 < Limb THEN [sig |-> <<sig[1], sig[2] + 1, 0>>, exp |-> exp]
    ELSE IF sig[1] + 1 < TopLimb THEN [sig |-> <<sig[1] + 1, 0, 0>>, exp |-> exp]
    ELSE [sig |-> <<TopLimb \div 2, 0, 0>>, exp |-> exp + 1]

\* The number of bits by which a exceeds the 17 bits of the first limb.
RECURSIVE Excess(_)
Excess(a) == IF a < TopLimb THEN 0 ELSE 1 + Excess(a \div 2)

\* Round-to-nearest, ties to even, of the exact value
\* (a * 2^36 + b * 2^18 + c) * 2^exp with a >= 2^16 of any length.
RoundToPrecision(a, b, c, exp) ==
    LET s == Excess(a)
        p == Pow2(s)
        up_shift == Limb \div p
        dropped == c % p
        c2 == (c \div p) + (b % p) * up_shift
        b2 == (b \div p) + (a % p) * up_shift
        a2 == a \div p
        round_up == 2 * dropped > p \/ (2 * dropped = p /\ c2 % 2 = 1)
    IN  IF s = 0 THEN [sig |-> <<a, b, c>>, exp |-> exp]
        ELSE IF round_up THEN Increment(<<a2, b2, c2>>, exp + s)
        ELSE [sig |-> <<a2, b2, c2>>, exp |-> exp + s]

\* The smallest shift that brings a up to b, and the largest E with
\* 2^E * b <= a.
RECURSIVE ShiftUp(_, _)
ShiftUp(a, b) == IF a >= b THEN 0 ELSE 1 + ShiftUp(2 * a, b)
RECURSIVE ShiftDown(_, _)
ShiftDown(a, b) == IF a < 2 * b THEN 0 ELSE 1 + ShiftDown(a, 2 * b)

\* a / b for positive integers a and b: the correctly rounded quotient, by
\* long division of num / den in [1, 2), one limb at a time.
float_div(a, b) ==
    LET up == ShiftUp(a, b)
        down == ShiftDown(a, b)
        num == a * Pow2(up)
        den == b * Pow2(down)
        q1 == (num * (TopLimb \div 2)) \div den
        r1 == (num * (TopLimb \div 2)) % den
        q2 == (r1 * Limb) \div den
        r2 == (r1 * Limb) % den
        q3 == (r2 * Limb) \div den
        r3 == (r2 * Limb) % den
        exp == down - up - (Precision - 1)
        round_up == 2 * r3 > den \/ (2 * r3 = den /\ q3 % 2 = 1)
    IN  IF round_up THEN Increment(<<q1, q2, q3>>, exp)
        ELSE [sig |-> <<q1, q2, q3>>, exp |-> exp]

\* n * f for a positive integer n < 2^12 and a double f: the correctly
\* rounded product.
float_mul(n, f) ==
    LET c == f.sig[3] * n
        b == f.sig[2] * n + c \div Limb
        a == f.sig[1] * n + b \div Limb
    IN  RoundToPrecision(a, b % Limb, c % Limb, f.exp)

\* f + 0.5 for a double f in [2^-12, 2^52): the correctly rounded sum.  k is
\* the place of 2^-1 counted from the last bit of f.
float_add_half(f) ==
    LET k == (0 - 1) - f.exp
        c == f.sig[3] + (IF k < 18 THEN Pow2(k) ELSE 0)
        b == f.sig[2] + (IF k >= 18 /\ k < 36 THEN Pow2(k - 18) ELSE 0) + c \div Limb
        a == f.sig[1] + (IF k >= 36 THEN Pow2(k - 36) ELSE 0) + b \div Limb
    IN  RoundToPrecision(a, b % Limb, c % Limb, f.exp)

\* The cast of a double below 2^30 to an integer: truncation.
float_to_int(f) ==
    LET shift == 0 - f.exp
    IN  IF shift >= Precision THEN 0
        ELSE IF shift >= 36 THEN f.sig[1] \div Pow2(shift - 36)
        ELSE f.sig[1] * Pow2(36 - shift) + f.sig[2] \div Pow2(shift - 18)

\* ------------------------------------------------------ _get_new_dimensions
\* None for new_x / new_y, which is no length.
None == 0 - 1

get_new_dimensions_raises(old_dims, new_x, new_y) ==
    (new_x # None /\ new_y # None) \/ (new_x = None /\ new_y = None)

\* new_dims[k] = old_dims[k] * rescale_factor + 0.5, stored in an integer
\* array.
scaled_axis(length, rescale_factor) ==
    float_to_int(float_add_half(float_mul(length, rescale_factor)))

\* _get_new_dimensions(old_dims, new_x, new_y) when it does not raise.
get_new_dimensions(old_dims, new_x, new_y) ==
    IF new_x # None
    THEN LET rescale_factor == float_div(new_x, old_dims[2])
         IN  [new_dims |-> [old_dims EXCEPT ![1] = scaled_axis(old_dims[1], rescale_factor),
                                            ![2] = new_x],
              rescale_factor |-> rescale_factor]
    ELSE LET rescale_factor == float_div(new_y, old_dims[1])
         IN  [new_dims |-> [old_dims EXCEPT ![2] = scaled_axis(old_dims[2], rescale_factor),
                                            ![1] = new_y],
              rescale_factor |-> rescale_factor]

\* The shapes of the images to rescale: rows and columns are multiples of
\* the default leaf size, with or without the axis of the four channels.
Lengths == {DefaultSize * k : k \in 1..MaxWidthSteps}
Targets == 1..MaxTarget
Channels == 4
OldDims ==
    {<<r, c>> : r, c \in Lengths} \cup {<<r, c, Channels>> : r, c \in Lengths}

\* One call of _get_new_dimensions; new_x and new_y are None or a length.
GetNewDimensions(old_dims, new_x, new_y) ==
    /\ new_dims' =
         IF get_new_dimensions_raises(old_dims, new_x, new_y)
         THEN [called |-> TRUE, old_dims |-> old_dims, new_x |-> new_x, new_y |-> new_y,
               err |-> TRUE, result |-> <<>>]
         ELSE [called |-> TRUE, old_dims |-> old_dims, new_x |-> new_x, new_y |-> new_y,
               err |-> FALSE, result |-> get_new_dimensions(old_dims, new_x, new_y)]
    /\ UNCHANGED <<layout, sketched, config, parsed, figures>>

\* One image is rescaled; `given` tells which of new_x and new_y are passed.
NextDimensions ==
    /\ ~new_dims.called
    /\ \E old_dims \in OldDims, t \in Targets, given \in SUBSET {"new_x", "new_y"} :
          GetNewDimensions(old_dims,
                           IF "new_x" \in given THEN t ELSE None,
                           IF "new_y" \in given THEN t ELSE None)

InitDimensions ==
    /\ reg = <<>> /\ nleaves = 0 /\ nops = 0 /\ last = NoCall
    /\ x_size = R(DefaultSize) /\ loaded = {} /\ im = NoImage
    /\ sketched = NotCalled /\ config = NotCalled /\ parsed = NotCalled
    /\ figures = NotCalled
    /\ new_dims = NotCalled

SpecDimensions == InitDimensions /\ [][NextDimensions]_vars

\* ------------------------------------------------- block_arrangement.py
\* _Box: the fields fill_boxes reads and writes.  pos and index are None
\* until the box is placed; height and label take no part in the filling.
Box(width) == [width |-> width, pos |-> None, index |-> None]

\* _ArangeFigures.__init__: the widest box.
max_fig_width(boxes) ==
    CHOOSE w \in {boxes[k].width : k \in DOMAIN boxes} :
        \A k \in DOMAIN boxes : boxes[k].width <= w

\* FillFigures.__init__ raises before filling when a box is wider than the
\* figure.
FillFigures_init_raises(boxes, figure_width) ==
    figure_width < max_fig_width(boxes)

\* Variant: a box that ends exactly on the figure's edge does not fit.
fits_strictly(new_width, figure_width) == new_width < figure_width

\* fill_boxes: "if new_width <= self.figure_width".
fits(new_width, figure_width) == new_width <= figure_width

\* The loop of fill_boxes from box n_box on (1-based here, enumerate is
\* 0-based), and the append of the last row after it.  Rows hold the
\* boxes by their place in self.boxes.
RECURSIVE fill_from(_, _, _)
fill_from(st, n_box, figure_width) ==
    IF n_box > Len(st.boxes)
    THEN [st EXCEPT !.rows = Append(@, st.current_row)]
    ELSE LET box == st.boxes[n_box]
             new_width == st.current_width + box.width
         IN  IF fits(new_width, figure_width)
             THEN fill_from(
                     [st EXCEPT !.boxes[n_box].pos = <<st.current_width, new_width>>,
                                !.boxes[n_box].index = <<Len(st.current_row), st.n_row>>,
                                !.current_width = new_width,
                                !.current_row = Append(@, n_box)],
                     n_box + 1, figure_width)
             ELSE fill_from(
                     [st EXCEPT !.n_row = @ + 1,
                                !.current_width = box.width,
                                !.boxes[n_box].pos = <<0, box.width>>,
                                !.boxes[n_box].index = <<0, st.n_row + 1>>,
                                !.rows = Append(@, st.current_row),
                                !.current_row = <<n_box>>],
                     n_box + 1, figure_width)

fill_boxes(boxes, figure_width) ==
    fill_from([boxes |-> boxes, rows |-> <<>>, n_row |-> 0,
               current_width |-> 0, current_row |-> <<>>], 1, figure_width)

BoxWidths == 1..MaxBoxWidth
FigureWidths == 1..(MaxBoxWidth + 1)
BoxLists ==
    UNION {[1..n -> {Box(w) : w \in BoxWidths}] : n \in 1..MaxBoxes}

\* FillFigures(Boxes, figure_width): the constructor, fill_boxes included.
FillFigures(boxes, figure_width) ==
    /\ figures' =
          IF FillFigures_init_raises(boxes, figure_width)
          THEN [called |-> TRUE, err |-> TRUE, figure_width |-> figure_width,
                boxes |-> boxes, rows |-> <<>>]
          ELSE LET st == fill_boxes(boxes, figure_width)
               IN  [called |-> TRUE, err |-> FALSE, figure_width |-> figure_width,
                    boxes |-> st.boxes, rows |-> st.rows]
    /\ UNCHANGED <<layout, sketched, config, parsed, new_dims>>

NextFill ==
    /\ ~figures.called
    /\ \E boxes \in BoxLists, figure_width \in FigureWidths :
          FillFigures(boxes, figure_width)

SpecFill == Init /\ [][NextFill]_vars

\* ------------------------------------------------------------ regrouping
\* Three leaves constructed side by side, Pos(path, dx=.., dy=..) each with a
\* size of its own and all at the default origin, then merged: flat by
\* merge_row / merge_col, or pairwise by stack_right / stack_below.
FreshSizes == Widths \X Widths

InitRegroup ==
    /\ \E size \in [1..3 -> FreshSizes] :
          reg = [k \in 1..3 |-> Pos(k, size[k][1], size[k][2],
                                    R(DefaultOrigin), R(DefaultOrigin))]
    /\ nleaves = 3 /\ nops = 0 /\ last = NoCall
    /\ x_size = R(DefaultSize) /\ loaded = {} /\ im = NoImage
    /\ sketched = NotCalled /\ config = NotCalled /\ parsed = NotCalled
    /\ new_dims = NotCalled /\ figures = NotCalled

NextRegroup ==
    \/ \E i, j \in Regs : StackRight(i, j)
    \/ \E i, j \in Regs : StackBelow(i, j)
    \/ MergeRow
    \/ MergeCol

SpecRegroup == InitRegroup /\ [][NextRegroup]_vars

\* ------------------------------------------------------------------ sketch
\* The label argument of sketch: False (the default), "short", or any other
\* true value, here True.
SketchLabels == {"False", "short", "True"}

\* What sketch draws for leaf p met at index num of its array: the rectangle
\* and, when label is set, the annotation at its centre.  Every leaf of the
\* model has a path, so `not p.path` is false.
Drawn(p, num, num_offset, label) ==
    [path |-> p.path,
     rect |-> <<p.x, p.y, p.dx, p.dy>>,
     text |-> IF label = "False" THEN [none |-> TRUE]
              ELSE IF label = "short" THEN [index |-> num + num_offset]
              ELSE [stem |-> p.path]]

\* plot_pos_array(p_array, num_offset) from element k of p_array on (1-based
\* here; num, the index enumerate yields, is k - 1).  A nested array is
\* plotted with the offset num + num_offset and its return value is added to
\* num_offset; the function returns the last num of its own loop.
RECURSIVE plot_from(_, _, _, _, _)
plot_from(p_array, k, num_offset, label, drawn) ==
    IF k > Len(p_array.arr)
    THEN [num |-> Len(p_array.arr) - 1, drawn |-> drawn]
    ELSE LET p == p_array.arr[k]
             num == k - 1
         IN  IF p.is_array
             THEN LET sub == plot_from(p, 1, num + num_offset, label, drawn)
                  IN  plot_from(p_array, k + 1, num_offset + sub.num, label, sub.drawn)
             ELSE plot_from(p_array, k + 1, num_offset, label,
                            Append(drawn, Drawn(p, num, num_offset, label)))

plot_pos_array(p_array, num_offset, label) ==
    plot_from(p_array, 1, num_offset, label, <<>>)

\* sketch divides x_range by y_range for the aspect of the axes before it
\* draws anything.
sketch_raises(self) == y_range(self) = R(0)

sketch(self, label) ==
    IF sketch_raises(self)
    THEN [called |-> TRUE, err |-> TRUE, label |-> label, tree |-> self, drawn |-> <<>>]
    ELSE [called |-> TRUE, err |-> FALSE, label |-> label, tree |-> self,
          drawn |-> plot_pos_array(self, 0, label).drawn]

\* reg[i].sketch(save_path, label) on the finished figure, a PosArray.
Sketch(i, label) ==
    /\ ~sketched.called
    /\ i = Top /\ i = 1
    /\ reg[i].is_array
    /\ sketched' = sketch(reg[i], label)
    /\ Step(Call("sketch", <<i>>, R(0), sketched'.err))
    /\ UNCHANGED <<reg, nleaves, nops, x_size, loaded, im, config, parsed, new_dims, figures>>

\* The caller builds a figure of up to MaxSketchLeaves leaves by stacking,
\* holding up to MaxSketchLeaves - 1 nodes at a time, and sketches it last.
SketchRegs == 1..(MaxSketchLeaves - 1)

SketchNewPos ==
    /\ ~sketched.called
    /\ nleaves < MaxSketchLeaves
    /\ Top < MaxSketchLeaves - 1
    /\ reg' = Put(Top + 1, Pos(nleaves + 1, x_size, y_size,
                               R(DefaultOrigin), R(DefaultOrigin)))
    /\ Step([NoCall EXCEPT !.op = "Pos", !.rs = <<Top + 1>>])
    /\ nleaves' = nleaves + 1
    /\ UNCHANGED <<nops, x_size, loaded, im, elsewhere>>

SketchStackRight(i, j) == ~sketched.called /\ StackRight(i, j)
SketchStackBelow(i, j) == ~sketched.called /\ StackBelow(i, j)

NextSketch ==
    \/ SketchNewPos
    \/ \E i, j \in SketchRegs : SketchStackRight(i, j)
    \/ \E i, j \in SketchRegs : SketchStackBelow(i, j)
    \/ \E i \in SketchRegs, label \in SketchLabels : Sketch(i, label)

SpecSketch == Init /\ [][NextSketch]_vars

\* =================================================================== claims
\* The operands of the last call as they were before it, and its result.
Opd(k) == last.pre[last.rs[k]]
Res == reg[last.rs[1]]
Did(op) == last.op = op /\ ~last.err
\* The node a successful stack call has appended to its receiver.
Added == Res.arr[Len(Res.arr)]

Positive(p) ==
    \A m \in 1..Len(Leaves(p)) : RLt(R(0), Leaves(p)[m].dx) /\ RLt(R(0), Leaves(p)[m].dy)

\* Two rectangles [x, x+dx) x [y, y+dy) have a common interior point.
Overlap(a, b) ==
    /\ RLt(a.x, RAdd(b.x, b.dx)) /\ RLt(b.x, RAdd(a.x, a.dx))
    /\ RLt(a.y, RAdd(b.y, b.dy)) /\ RLt(b.y, RAdd(a.y, a.dy))

NoOverlap(p) ==
    \A m, n \in 1..Len(Leaves(p)) : m < n => ~Overlap(Leaves(p)[m], Leaves(p)[n])

IsFresh(p, dx, dy) ==
    ~p.is_array /\ p.x = R(DefaultOrigin) /\ p.y = R(DefaultOrigin) /\ p.dx = dx /\ p.dy = dy

\* C1: after A.stack_right(B), for A and B with positive extents, the y_range
\* of the result equals the y_range A had before the call.
C1_StackRightKeepsYRange ==
    (Did("stack_right") /\ Positive(Opd(1)) /\ Positive(Opd(2)))
        => y_range(Res) = y_range(Opd(1))

\* C2: after A.stack_right(B) with B.y_range # 0, B's bounding box starts
\* exactly at A's old x_max (the offset comes from B's coordinates before the
\* rescale) and the result's x_max is A.x_max + B.x_range * (A.y_range / B.y_range).
C2_StackRightAbuts ==
    (Did("stack_right") /\ y_range(Opd(2)) # R(0)) =>
        /\ x_min(Added) = x_max(Opd(1))
        /\ x_max(Res) = RAdd(x_max(Opd(1)),
                             RMul(x_range(Opd(2)), RDiv(y_range(Opd(1)), y_range(Opd(2)))))

C2_Witness ==
    /\ Did("stack_right")
    /\ Opd(2).is_array
    /\ x_min(Opd(2)) # R(0)
    /\ y_range(Opd(1)) # y_range(Opd(2))

\* C3: after A.stack_below(B) with B.x_range # 0, B's bounding box has A's
\* x_range and starts at A's old y_max, so the result's y_max is
\* A.y_max + B.y_range * (A.x_range / B.x_range).
C3_StackBelowAbuts ==
    (Did("stack_below") /\ x_range(Opd(2)) # R(0)) =>
        /\ x_range(Added) = x_range(Opd(1))
        /\ y_min(Added) = y_max(Opd(1))
        /\ y_max(Res) = RAdd(y_max(Opd(1)),
                             RMul(y_range(Opd(2)), RDiv(x_range(Opd(1)), x_range(Opd(2)))))

C3_Witness ==
    /\ Did("stack_below")
    /\ Opd(2).is_array
    /\ y_min(Opd(2)) # R(0)
    /\ x_range(Opd(1)) # x_range(Opd(2))
    /\ y_range(Opd(2)) # x_range(Opd(2))

\* The image of leaf p under the similarity with centre (X, Y) and ratio f.
Similar(p, X, Y, f) ==
    [p EXCEPT !.x = RAdd(X, RMul(RSub(p.x, X), f)),
              !.y = RAdd(Y, RMul(RSub(p.y, Y), f)),
              !.dx = RMul(f, p.dx),
              !.dy = RMul(f, p.dy)]

\* C4: PosArray.rescale(f) with f > 0 is the similarity about (x_min, y_min)
\* of the tree it is called on, for every leaf at every depth; so x_min and
\* y_min stay, x_range and y_range are multiplied by f, and every leaf keeps
\* its aspect ratio.
C4_RescaleIsSimilarity ==
    (Did("rescale") /\ Opd(1).is_array /\ RLt(R(0), last.f)) =>
        LET T == Opd(1)
            ips == LeafPaths(T)
        IN  /\ LeafPaths(Res) = ips
            /\ \A m \in 1..Len(ips) :
                 /\ GetAt(Res, ips[m]) = Similar(GetAt(T, ips[m]), x_min(T), y_min(T), last.f)
                 /\ aspect(GetAt(Res, ips[m])) = aspect(GetAt(T, ips[m]))
            /\ x_min(Res) = x_min(T)
            /\ y_min(Res) = y_min(T)
            /\ x_range(Res) = RMul(last.f, x_range(T))
            /\ y_range(Res) = RMul(last.f, y_range(T))

\* A tree with a nested tree whose own minimum is not the outer minimum.
HasOffsetNested(T) ==
    /\ T.is_array
    /\ \E k \in 1..Len(T.arr) :
         /\ T.arr[k].is_array
         /\ (x_min(T.arr[k]) # x_min(T) \/ y_min(T.arr[k]) # y_min(T))

C4_Witness ==
    /\ Did("rescale")
    /\ HasOffsetNested(Opd(1))
    /\ x_min(Opd(1)) # R(0)
    /\ last.f = <<1, 2>>

\* The tree that directly contains the leaf at index path ip of T.
Parent(T, ip) == GetAt(T, SubSeq(ip, 1, Len(ip) - 1))

\* C5 as stated: rescale repositions the leaves of a nested tree about the
\* nested tree's own (x_min, y_min).
C5_NestedOwnAnchor ==
    (Did("rescale") /\ Opd(1).is_array) =>
        LET T == Opd(1)
            ips == LeafPaths(T)
        IN  \A m \in 1..Len(ips) :
              Len(ips[m]) > 1 =>
                GetAt(Res, ips[m]) =
                  Similar(GetAt(T, ips[m]), x_min(Parent(T, ips[m])),
                          y_min(Parent(T, ips[m])), last.f)

\* C5 amended: rescale repositions the leaves of a nested tree about the
\* (x_min, y_min) of the outer tree rescale was called on, which moves the
\* nested tree's own minimum whenever it differs from the outer one.
C5_NestedOuterAnchor ==
    (Did("rescale") /\ Opd(1).is_array) =>
        LET T == Opd(1)
            ips == LeafPaths(T)
        IN  /\ \A m \in 1..Len(ips) :
                 Len(ips[m]) > 1 =>
                   GetAt(Res, ips[m]) =
                     Similar(GetAt(T, ips[m]), x_min(T), y_min(T), last.f)
            /\ \A k \in 1..Len(T.arr) :
                 T.arr[k].is_array =>
                   /\ RSub(x_min(Res.arr[k]), x_min(T))
                        = RMul(last.f, RSub(x_min(T.arr[k]), x_min(T)))
                   /\ RSub(y_min(Res.arr[k]), y_min(T))
                        = RMul(last.f, RSub(y_min(T.arr[k]), y_min(T)))

C5_Witness ==
    /\ Did("rescale")
    /\ HasOffsetNested(Opd(1))
    /\ \E k \in 1..Len(Res.arr) :
         /\ Res.arr[k].is_array
         /\ \/ x_min(Res.arr[k]) # x_min(Opd(1).arr[k])
            \/ y_min(Res.arr[k]) # y_min(Opd(1).arr[k])

\* C6: in every tree built from fresh leaves of positive size by stack_right /
\* stack_below (merge_row / merge_col), no two leaves' rectangles have
\* overlapping interiors.  Stated for every node the caller holds, also
\* after positive rescales and shifts of the operands.
C6_NoOverlap == \A i \in DOMAIN reg : NoOverlap(reg[i])

C6_Witness ==
    /\ nops = 0
    /\ Did("stack_below")
    /\ Opd(2).is_array
    /\ Len(Leaves(Res)) > 2
    /\ x_range(Opd(1)) # x_range(Opd(2))

\* P.stack_below(Q.stack_right(R)) for three 50x50 leaves at the origin.
C7_Scenario ==
    /\ Did("stack_below")
    /\ IsFresh(Opd(1), R(DefaultSize), R(DefaultSize))
    /\ Opd(2).is_array
    /\ Len(Opd(2).arr) = 2
    /\ IsFresh(Opd(2).arr[1], R(DefaultSize), R(DefaultSize))
    /\ ~Opd(2).arr[2].is_array
    /\ Opd(2).arr[2] = [Opd(2).arr[1] EXCEPT !.path = Opd(2).arr[2].path,
                                             !.x = R(DefaultSize)]

\* C7 as stated: the result is 100 wide (P stretched to the row).
C7_ResultIs100Wide == C7_Scenario => x_range(Res) = R(2 * DefaultSize)

\* C7 amended: the result is 50 wide; P is unchanged and the row Q, R is
\* shrunk by 1/2 to P's width, its leaves becoming 25x25 under P.
C7_ResultIs50Wide ==
    C7_Scenario =>
        /\ x_range(Res) = R(DefaultSize)
        /\ Res.arr[1] = Opd(1)
        /\ x_range(Added) = R(DefaultSize)
        /\ \A m \in 1..Len(Leaves(Added)) :
             /\ Leaves(Added)[m].dx = RDiv(R(DefaultSize), R(2))
             /\ Leaves(Added)[m].dy = RDiv(R(DefaultSize), R(2))
             /\ Leaves(Added)[m].y = R(DefaultSize)

C7_Witness == C7_Scenario /\ Len(Leaves(Res)) = 3

\* Every element of the merged list is a fresh leaf of the size of the first.
EqualFreshLeaves ==
    \A k \in 1..Len(last.rs) : IsFresh(Opd(k), Opd(1).dx, Opd(1).dy)

C9_LeavesStayPositive == \A i \in DOMAIN reg : Positive(reg[i])

\* The last two calls were rescale(f) and rescale(1/f) on one node, f > 0.
RoundTrip ==
    /\ Did("rescale")
    /\ Len(last.run) = 2
    /\ RLt(R(0), last.run[1])
    /\ last.run[2] = RDiv(R(1), last.run[1])

\* C10: rescaling a tree by f > 0 and then by 1/f restores its x_range and
\* y_range.
C10_RescaleRoundTrip ==
    RoundTrip =>
        /\ x_range(Res) = x_range(last.base)
        /\ y_range(Res) = y_range(last.base)

C10_Witness ==
    /\ RoundTrip
    /\ HasOffsetNested(last.base)
    /\ last.run[1] = <<1, 2>>
    /\ x_range(last.pre[last.rs[1]]) # x_range(Res)

\* C11: merge_row([A, B, C]) and merge_row([merge_row([A, B]), C]), each built
\* from its own copies of A, B and C, have the same x_range and y_range.
C11_MergeRowRegroups ==
    (Did("merge_row") /\ Len(last.rs) = 3) =>
        LET inner == merge_row(<<Opd(1), Opd(2)>>)
            outer == merge_row(<<inner.acc, Opd(3)>>)
        IN  /\ ~inner.err /\ ~outer.err
            /\ x_range(Res) = x_range(outer.acc)
            /\ y_range(Res) = y_range(outer.acc)

C11_Witness ==
    /\ Did("merge_row")
    /\ Len(last.rs) = 3
    /\ \A k \in 1..3 : Opd(k).x = R(DefaultOrigin) /\ Opd(k).y = R(DefaultOrigin)
    /\ Opd(3).dy # Opd(1).dy
    /\ x_range(Res) = RMul(R(3), Opd(1).dx)

\* C12: A.stack_right(B) with B.y_range = 0, and A.stack_below(B) with
\* B.x_range = 0, raise, and after the raise A and B are what they were before
\* the call: B has not been shifted, rescaled or appended.
C12_DegenerateStackRaisesFirst ==
    /\ (last.op = "stack_right" /\ y_range(Opd(2)) = R(0)) =>
          /\ last.err
          /\ reg[last.rs[1]] = Opd(1)
          /\ reg[last.rs[2]] = Opd(2)
    /\ (last.op = "stack_below" /\ x_range(Opd(2)) = R(0)) =>
          /\ last.err
          /\ reg[last.rs[1]] = Opd(1)
          /\ reg[last.rs[2]] = Opd(2)

C12_Witness ==
    /\ last.op = "stack_right"
    /\ last.err
    /\ y_range(Opd(2)) = R(0)
    /\ x_max(Opd(1)) # x_min(Opd(2))

\* C13 as stated: PosArray(arr) with zero children (an empty list or None)
\* raises.
C13_EmptyIsRejected ==
    (last.op = "PosArray" /\ last.args.n = 0) => last.err

\* C13 amended: PosArray(arr) with zero children is accepted; the caller gets
\* a tree whose children list is empty (None is replaced by an empty list).
C13_EmptyIsAccepted ==
    (last.op = "PosArray" /\ last.args.n = 0) =>
        /\ ~last.err
        /\ Res.is_array
        /\ Res.arr = <<>>
        /\ Leaves(Res) = <<>>

C13_Witness ==
    /\ last.op = "PosArray"
    /\ last.args.is_none
    /\ ~last.err
    /\ Top = 2

\* C14: Pos(path, dx=dx, dy=dy) with dx <= 0 or dy <= 0 raises.  Stated for a
\* path that is not a file, where dx and dy become the size of the leaf (for
\* an image file they are ignored and nothing is raised either).
C14_NonPositiveSizeIsRejected ==
    (last.op = "Pos" /\ last.args # <<>> /\ ~last.args.exists
       /\ (RLe(last.args.dx, R(0)) \/ RLe(last.args.dy, R(0)))) => last.err

\* What the last stack call has made of its second operand.
Stacked ==
    IF last.op = "stack_right" THEN stack_right_other(Opd(1), Opd(2))
    ELSE stack_below_other(Opd(1), Opd(2))

\* C16: when a PosArray B is stacked onto a PosArray A, the result's children
\* are A's children followed by B's children, len(A) + len(B) in all.
C16_ArraysAreSpliced ==
    ((Did("stack_right") \/ Did("stack_below")) /\ Opd(1).is_array /\ Opd(2).is_array) =>
        /\ Len(Res.arr) = Len(Opd(1).arr) + Len(Opd(2).arr)
        /\ Res.arr = Opd(1).arr \o Stacked.arr

\* The paths of the leaves of p in depth-first, left-to-right order.
LeafIds(p) == [m \in 1..Len(Leaves(p)) |-> Leaves(p)[m].path]

\* C17: after A.stack_right(B) or A.stack_below(B) the leaf sequence of the
\* result is that of A followed by that of B; shift_x, shift_y and rescale
\* leave the leaf sequence as it is.
C17_LeafOrder ==
    /\ (Did("stack_right") \/ Did("stack_below")) =>
          LeafIds(Res) = LeafIds(Opd(1)) \o LeafIds(Opd(2))
    /\ (Did("shift_x") \/ Did("shift_y") \/ Did("rescale")) =>
          LeafIds(Res) = LeafIds(Opd(1))

C17_Witness ==
    /\ Did("stack_right")
    /\ Opd(1).is_array
    /\ Len(LeafIds(Opd(1))) = 2
    /\ LeafIds(Res) = <<1, 2, 3>>

\* C18: shift_x(d) adds d to the x of every leaf at every depth and changes
\* nothing else; shift_y(d) does the same to y; two shifts by d1 and d2 in a
\* row are one shift by d1 + d2.
C18_ShiftMovesEveryLeaf ==
    /\ Did("shift_x") =>
          /\ LeafPaths(Res) = LeafPaths(Opd(1))
          /\ \A m \in 1..Len(Leaves(Res)) :
                Leaves(Res)[m] = [Leaves(Opd(1))[m] EXCEPT !.x = RAdd(@, last.f)]
          /\ Len(last.run) = 2 =>
                Res = shift_x(last.base, RAdd(last.run[1], last.run[2]))
    /\ Did("shift_y") =>
          /\ LeafPaths(Res) = LeafPaths(Opd(1))
          /\ \A m \in 1..Len(Leaves(Res)) :
                Leaves(Res)[m] = [Leaves(Opd(1))[m] EXCEPT !.y = RAdd(@, last.f)]
          /\ Len(last.run) = 2 =>
                Res = shift_y(last.base, RAdd(last.run[1], last.run[2]))

C18_Witness ==
    /\ Did("shift_x")
    /\ Len(last.run) = 2
    /\ last.base.is_array
    /\ \E k \in 1..Len(last.base.arr) : last.base.arr[k].is_array
    /\ x_min(Res) = RAdd(x_min(last.base), R(DefaultSize))

\* C15 as stated: populate on a tree with x_min # 0 or y_min # 0 raises the
\* origin error and saves no image.  Stated for the calls in which no write
\* into the buffer fails, so that a violation is an image saved from a tree
\* that is off the origin.
C15_OffOriginRaises ==
    (last.op = "populate" /\ im.err # "shape"
       /\ (x_min(Opd(1)) # R(0) \/ y_min(Opd(1)) # R(0))) =>
        /\ im.err = "origin"
        /\ ~im.saved

\* C15 amended: populate raises the origin error exactly when x_min or y_min
\* of the tree is not 0 after the rescale to final_width and the integer
\* normalisation, that is when int(x_min + 0.5) # 0 or int(y_min + 0.5) # 0
\* for the tree as given; it then writes nothing and saves no image.  A tree
\* whose offset normalises to 0 is populated.
C15_OffOriginAfterNormalisingRaises ==
    last.op = "populate" =>
        LET off == normalise(x_min(Opd(1))) # R(0) \/ normalise(y_min(Opd(1))) # R(0)
        IN  /\ off <=> im.err = "origin"
            /\ off <=> (x_min(Res) # R(0) \/ y_min(Res) # R(0))
            /\ off => (~im.saved /\ im.writes = <<>>)

C15_Witness ==
    /\ last.op = "populate"
    /\ last.args.has_width
    /\ y_min(Opd(1)) = R(DefaultSize \div 2)
    /\ im.err = "origin"
    /\ ~im.saved

\* C19: in populate, for every leaf, loaded image or blank placeholder, the
\* image data after resize has shape (dy, dx), which is the shape of the
\* buffer slice [y_min:y_max, x_min:x_max] it is written to.
C19_DataFitsSlice ==
    last.op = "populate" =>
        \A m \in 1..Len(im.writes) :
            /\ im.writes[m].data = <<im.writes[m].p.dy[1], im.writes[m].p.dx[1]>>
            /\ im.writes[m].data = im.writes[m].slice

\* C20: for a tree of non-overlapping leaves anchored at the origin, after
\* populate's rescale to the target width and the integer normalisation no
\* two leaves' pixel rectangles overlap, so no write goes over pixels of an
\* earlier one.  Stated for the calls that write every leaf and save the image.
C20_NoPixelOverlap ==
    (Did("populate") /\ last.args.has_width /\ NoOverlap(Opd(1))
       /\ x_min(Opd(1)) = R(0) /\ y_min(Opd(1)) = R(0)) =>
        /\ NoOverlap(Res)
        /\ \A m, n \in 1..Len(im.writes) :
              m < n => ~Overlap(im.writes[m].p, im.writes[n].p)

\* The nearest integer to v, an exact half going up: floor(v + 1/2).
RoundHalfUp(v) == R((2 * v[1] + v[2]) \div (2 * v[2]))

\* C21: _normalise_values replaces the x, y, dx and dy of every leaf at every
\* depth by the nearest integer, halves rounded up, whatever the value.
C21_RoundsHalfUp ==
    Did("_normalise_values") =>
        /\ LeafPaths(Res) = LeafPaths(Opd(1))
        /\ \A m \in 1..Len(Leaves(Res)) :
              Leaves(Res)[m] = [Leaves(Opd(1))[m] EXCEPT !.x = RoundHalfUp(@),
                                                         !.y = RoundHalfUp(@),
                                                         !.dx = RoundHalfUp(@),
                                                         !.dy = RoundHalfUp(@)]

\* C22: populate(save_path, final_width=W) on a tree anchored at the origin
\* gives a buffer of width exactly W: set_width makes x_range equal W, and the
\* width taken after the integer normalisation is still W.  Stated for the
\* calls that write every leaf and save the image.
C22_BufferWidthIsFinalWidth ==
    (Did("populate") /\ last.args.has_width
       /\ x_min(Opd(1)) = R(0) /\ y_min(Opd(1)) = R(0)) =>
        /\ x_range(set_width(Opd(1), last.f)) = last.f
        /\ x_range(Res) = last.f
        /\ im.shape[2] = last.f[1]

\* The leaf entries of a list of configuration entries in depth-first order.
RECURSIVE ConfigLeaves(_)
ConfigLeaves(entries) ==
    IF entries = <<>> THEN <<>>
    ELSE (IF Head(entries).kind = "branch" THEN ConfigLeaves(Head(entries).entries)
          ELSE <<Head(entries)>>) \o ConfigLeaves(Tail(entries))

\* The Pos objects of a parse result in depth-first order; a result is a
\* (header, entries) pair in dry mode and a Row / Col container otherwise.
RECURSIVE ParsedLeaves(_, _)
ParsedLeaves(struct, dry) ==
    IF struct = <<>> THEN <<>>
    ELSE LET e == Head(struct)
             sub == IF dry THEN (IF DOMAIN e = 1..2 THEN ParsedLeaves(e[2], dry) ELSE <<e>>)
                    ELSE (IF "cont" \in DOMAIN e THEN ParsedLeaves(e.cont, dry) ELSE <<e>>)
         IN  sub \o ParsedLeaves(Tail(struct), dry)

ParsedEntries == IF parsed.dry THEN parsed.value[2] ELSE parsed.value.cont

ConfigFormat ==
    IF "default_label" \in DOMAIN config.options THEN config.options.default_label
    ELSE DefaultFormat

\* C23: the k-th leaf of the configuration in depth-first order, counting from
\* 0 across all nested Row / Col levels, gets the default text formatted with
\* index = k; a leaf that overrides its text or size still uses up its index,
\* so the leaves after it keep their positional numbers.
C23_LabelsFollowLeafOrder ==
    (parsed.called /\ ~parsed.err) =>
        LET want == ConfigLeaves(config.entries)
            got == ParsedLeaves(ParsedEntries, parsed.dry)
        IN  /\ Len(got) = Len(want)
            /\ parsed.index = Len(want)
            /\ \A k \in 1..Len(want) :
                 /\ got[k].path = want[k].path
                 /\ got[k].label.text =
                      IF want[k].kind = "complex" /\ "text" \in DOMAIN want[k].override
                      THEN want[k].override.text
                      ELSE Format(ConfigFormat, k - 1)

\* An overriding leaf inside a nested branch, with default-labelled leaves
\* before and after it on other levels.
C23_Witness ==
    /\ parsed.called /\ ~parsed.err
    /\ Len(config.entries) = 3
    /\ config.entries[1].kind = "path"
    /\ config.entries[2].kind = "branch"
    /\ config.entries[2].entries[1].kind = "complex"
    /\ config.entries[3].kind = "path"
    /\ ParsedLeaves(ParsedEntries, parsed.dry)[3].label.text = Format(ConfigFormat, 2)

\* value is the (header, entries) pair that mirrors a branch of the
\* configuration: same header, same number of entries in the same order, a
\* leaf Pos of the same path for a path string, a mirroring pair for a branch.
RECURSIVE Mirrors(_, _, _)
Mirrors(header, entries, value) ==
    /\ DOMAIN value = 1..2
    /\ value[1] = header
    /\ Len(value[2]) = Len(entries)
    /\ \A k \in 1..Len(entries) :
         /\ entries[k].kind = "path" =>
               /\ DOMAIN value[2][k] # 1..2
               /\ ~value[2][k].is_array
               /\ value[2][k].path = entries[k].path
         /\ entries[k].kind = "branch" =>
               Mirrors(entries[k].header, entries[k].entries, value[2][k])

\* C24: parse_yaml(config, dry=True) returns a (header, entries) pair that
\* mirrors the configuration, recursively.
C24_DryParseMirrorsConfig ==
    (parsed.called /\ parsed.dry) =>
        /\ ~parsed.err
        /\ Mirrors(config.header, config.entries, parsed.value)

\* C25: _get_new_dimensions(old_dims, new_y=t) returns t rows and
\* old_cols * t / old_rows columns rounded to the nearest integer, halves up,
\* with any further axes unchanged, and the factor t / old_rows (the double
\* nearest to it); with new_x=t rows and columns change roles.
C25_NewDimensions ==
    (new_dims.called /\ ~new_dims.err) =>
        LET old == new_dims.old_dims
            new == new_dims.result.new_dims
            from_y == new_dims.new_y # None
            t == IF from_y THEN new_dims.new_y ELSE new_dims.new_x
            set == IF from_y THEN 1 ELSE 2
            other == IF from_y THEN 2 ELSE 1
        IN  /\ Len(new) = Len(old)
            /\ new[set] = t
            /\ new[other] = RoundHalfUp(<<old[other] * t, old[set]>>)[1]
            /\ \A k \in 3..Len(old) : new[k] = old[k]
            /\ new_dims.result.rescale_factor = float_div(t, old[set])

RECURSIVE RowWidth(_, _)
RowWidth(boxes, row) ==
    IF row = <<>> THEN 0
    ELSE boxes[Head(row)].width + RowWidth(boxes, Tail(row))

\* C26: for a non-empty list of boxes none of which is wider than
\* figure_width, FillFigures raises nothing and splits the boxes, in their
\* original order, into non-empty rows no wider than figure_width; a row
\* ends exactly where the next box would not fit; every box has
\* pos = (start, start + width), start being the width of the boxes before it
\* in its row, and index = (column in the row, row number).
C26_FillFigures ==
    (figures.called /\ figures.figure_width >= max_fig_width(figures.boxes)) =>
        LET boxes == figures.boxes
            rows == figures.rows
            W == figures.figure_width
        IN  /\ ~figures.err
            /\ Concat(rows) = [k \in 1..Len(boxes) |-> k]
            /\ \A r \in DOMAIN rows :
                  /\ rows[r] # <<>>
                  /\ RowWidth(boxes, rows[r]) <= W
                  /\ r > 1 =>
                        RowWidth(boxes, rows[r - 1]) + boxes[rows[r][1]].width > W
                  /\ \A c \in DOMAIN rows[r] :
                        LET box == boxes[rows[r][c]]
                            start == RowWidth(boxes, SubSeq(rows[r], 1, c - 1))
                        IN  /\ box.pos = <<start, start + box.width>>
                            /\ box.index = <<c - 1, r - 1>>

\* C26 witness: the boxes were split into more than one row, one of them
\* filled to the figure's edge and one holding several boxes.
C26_Witness ==
    /\ figures.called /\ ~figures.err
    /\ Len(figures.rows) > 1
    /\ \E r \in DOMAIN figures.rows :
          RowWidth(figures.boxes, figures.rows[r]) = figures.figure_width
    /\ \E r \in DOMAIN figures.rows : Len(figures.rows[r]) > 1

\* C27: A.stack_right(B) and A.stack_below(B) change the geometry only of
\* leaves of B: every leaf that was in A before the call is still there first
\* with the x, y, dx and dy it had, and the (x_min, y_min) of A is what it
\* was before the call (a PosArray A is the result itself; a Pos A is left as
\* it was and is the result's first leaf).
C27_StackKeepsReceiver ==
    (Did("stack_right") \/ Did("stack_below")) =>
        LET A == Opd(1)
            n == Len(Leaves(A))
        IN  /\ n <= Len(Leaves(Res))
            /\ \A m \in 1..n : Leaves(Res)[m] = Leaves(A)[m]
            /\ A.is_array => x_min(Res) = x_min(A) /\ y_min(Res) = y_min(A)

FreshAtOrigin(p) ==
    /\ ~p.is_array
    /\ p.x = R(DefaultOrigin) /\ p.y = R(DefaultOrigin)
    /\ RLt(R(0), p.dx) /\ RLt(R(0), p.dy)

\* The right-grouped merge of the three operands of the last call:
\* merge([A, merge([B, C])]).
RightGrouped(dir) ==
    LET inner == merge(dir, <<Opd(2), Opd(3)>>)
    IN  IF inner.err THEN inner ELSE merge(dir, <<Opd(1), inner.acc>>)

C29_WritesStayInsideBuffer ==
    (last.op = "populate" /\ im.err \notin {"origin", "ZeroDivisionError"}) =>
        LET ps == Leaves(im.tree)
            height == im.shape[1]
            width == im.shape[2]
        IN  /\ \A m \in 1..Len(ps) :
                  /\ 0 <= x_min(ps[m])[1] /\ x_max(ps[m])[1] <= width
                  /\ 0 <= y_min(ps[m])[1] /\ y_max(ps[m])[1] <= height
            /\ Len(im.writes) = Len(ps)
            /\ \A m \in 1..Len(im.writes) :
                  /\ im.writes[m].path = ps[m].path
                  /\ im.writes[m].slice = <<y_range(ps[m])[1], x_range(ps[m])[1]>>
                  /\ im.writes[m].ok

\* C30: sketch with label = "short" draws every leaf once, in depth-first
\* left-to-right order, and the numbers it writes on them are 0, 1, ..., n - 1
\* in that order (so pairwise distinct), whatever the nesting depth.
C30_SketchNumbersLeaves ==
    (sketched.called /\ ~sketched.err /\ sketched.label = "short") =>
        /\ [m \in 1..Len(sketched.drawn) |-> sketched.drawn[m].path]
              = LeafIds(sketched.tree)
        /\ \A m \in 1..Len(sketched.drawn) :
              sketched.drawn[m].text = [index |-> m - 1]

====
